---- MODULE Spec2Model ----
(***************************************************************************)
(* Model of src/app.py: the surge-arrester sizing calculation.             *)
(*                                                                         *)
(* Two specifications share the calculation functions:                     *)
(*   Spec      - a run of the script: widgets are read, Z_0 is selected,   *)
(*               and on "Calcular" the sections 3.11.1 .. 3.11.8, NPM and  *)
(*               the summary are computed and rendered one after another.  *)
(*   SpecCalls - the calculation functions called directly with arguments  *)
(*               that also lie outside the widget ranges.                  *)
(*                                                                         *)
(* Numbers.  A Python float is modelled as the exact real                  *)
(*      (n / d) * (1 / sqrt 3)^r ,  d > 0, gcd(n, d) = 1, r \in {0, 1},    *)
(* which is closed under the arithmetic the program performs (the only     *)
(* irrational is math.sqrt(3) in calculate_cov).  Comparisons are decided  *)
(* exactly; binary rounding of floats is not modelled.                     *)
(* math.log is not rational-valued: the value W of line 146 is drawn by    *)
(* the caller of calculate_energy_absorption, whose exceptions (division   *)
(* by zero, logarithm of a non-positive number) are modelled exactly.      *)
(***************************************************************************)
EXTENDS Integers, Sequences, FiniteSets, TLC

VARIABLES widgets, button, pc, ns, bound, page, exc, call, ret

vars == <<widgets, button, pc, ns, bound, page, exc, call, ret>>

scriptVars == <<widgets, button, pc, ns, bound, page, exc>>

callVars == <<call, ret>>

(***************************************************************************)
(* Exact arithmetic                                                        *)
(***************************************************************************)
Abs(x) == IF x < 0 THEN -x ELSE x

RECURSIVE Gcd(_, _)
Gcd(a, b) == IF b = 0 THEN a ELSE Gcd(b, a % b)

\* The number (n/d) * (1/sqrt 3)^r in normal form; zero is rational.
Num(n, d, r) ==
    LET g == Gcd(Abs(n), Abs(d))
        s == IF d < 0 THEN -1 ELSE 1
    IN  [n |-> (s * n) \div g, d |-> (s * d) \div g, r |-> IF n = 0 THEN 0 ELSE r]

Rat(n, d) == Num(n, d, 0)

R(i) == Num(i, 1, 0)

Zero == R(0)

\* math.sqrt(3) = 3 * (1/sqrt 3)
Sqrt3 == Num(3, 1, 1)

IsZero(a) == a.n = 0

Sign(a) == IF a.n > 0 THEN 1 ELSE IF a.n < 0 THEN -1 ELSE 0

Mul(a, b) ==
    IF a.r + b.r = 2
    THEN Num(a.n * b.n, 3 * a.d * b.d, 0)
    ELSE Num(a.n * b.n, a.d * b.d, a.r + b.r)

\* a / b for b # 0
Div(a, b) ==
    IF b.r = 0 THEN Num(a.n * b.d, a.d * b.n, a.r)
    ELSE IF a.r = 1 THEN Num(a.n * b.d, a.d * b.n, 0)
    ELSE Num(3 * a.n * b.d, a.d * b.n, 1)

\* a - b for rational a and b
Sub(a, b) == Num(a.n * b.d - b.n * a.d, a.d * b.d, 0)

\* Three-limb squares in base 10000, so that 3*p^2 <= q^2 is decided for
\* p, q < 10^8 without leaving 32-bit integers.
Base == 10000

SqLimbs(x) ==
    LET h  == x \div Base
        l  == x % Base
        t0 == l * l
        t1 == 2 * h * l + t0 \div Base
    IN  <<h * h + t1 \div Base, t1 % Base, t0 % Base>>

Times3(t) ==
    LET u0 == 3 * t[3]
        u1 == 3 * t[2] + u0 \div Base
    IN  <<3 * t[1] + u1 \div Base, u1 % Base, u0 % Base>>

LimbsLeq(s, t) ==
    \/ s[1] < t[1]
    \/ s[1] = t[1] /\ s[2] < t[2]
    \/ s[1] = t[1] /\ s[2] = t[2] /\ s[3] <= t[3]

\* p * sqrt 3 <= q for integers p, q
RootLeq(p, q) ==
    IF p <= 0 /\ q >= 0 THEN TRUE
    ELSE IF p >= 0 /\ q <= 0 THEN FALSE
    ELSE IF p > 0 THEN LimbsLeq(Times3(SqLimbs(p)), SqLimbs(q))
    ELSE LimbsLeq(SqLimbs(-q), Times3(SqLimbs(-p)))

\* a <= b
Leq(a, b) ==
    IF a.r = b.r THEN a.n * b.d <= b.n * a.d
    ELSE IF a.r = 0 THEN RootLeq(a.n * b.d, b.n * a.d)
    ELSE ~RootLeq(b.n * a.d, a.n * b.d)

Lt(a, b) == ~Leq(b, a)

\* Python's max(a, b): the first argument unless the second is greater
Max(a, b) == IF Lt(a, b) THEN b ELSE a

\* Python's round() of a rational: to the nearest integer, ties to even
Round(a) ==
    LET f    == a.n \div a.d
        rem2 == 2 * (a.n - f * a.d)
    IN  IF rem2 < a.d THEN f
        ELSE IF rem2 > a.d THEN f + 1
        ELSE IF f % 2 = 0 THEN f ELSE f + 1

(***************************************************************************)
(* The calculation functions.  Each returns a record whose field exc is    *)
(* "None" when the call returns, and the name of the Python exception the  *)
(* call raises otherwise; the other fields are the returned tuple.         *)
(***************************************************************************)
Raise(e) == [exc |-> e]

calculate_cov(U_m) ==
    [exc |-> "None", cov |-> Mul(Rat(105, 100), Div(U_m, Sqrt3))]

calculate_tov(cov, K_e) ==
    [exc |-> "None", tov |-> Mul(K_e, cov)]

calculate_rated_voltage(cov, tov, k_d, k_tov) ==
    IF IsZero(k_d) \/ IsZero(k_tov) THEN Raise("ZeroDivisionError")
    ELSE LET U_r1 == Div(cov, k_d)
             U_r2 == Div(tov, k_tov)
         IN  [exc |-> "None", U_r_theoretical |-> Max(U_r1, U_r2),
              U_r1 |-> U_r1, U_r2 |-> U_r2]

standard_values ==
    <<96, 108, 120, 144, 156, 168, 180, 192, 216, 228, 240, 258, 264, 276,
      288, 300, 312, 330, 336, 360, 396>>

\* the for loop of lines 113-115 from index i on, then line 118
RECURSIVE ScanCatalog(_, _)
ScanCatalog(i, U_r_theoretical) ==
    IF i > Len(standard_values) THEN standard_values[Len(standard_values)]
    ELSE IF Leq(U_r_theoretical, R(standard_values[i])) THEN standard_values[i]
    ELSE ScanCatalog(i + 1, U_r_theoretical)

\* the loop with the comparison strict: an exact catalog entry is passed over
RECURSIVE ScanCatalogStrict(_, _)
ScanCatalogStrict(i, U_r_theoretical) ==
    IF i > Len(standard_values) THEN standard_values[Len(standard_values)]
    ELSE IF Lt(U_r_theoretical, R(standard_values[i])) THEN standard_values[i]
    ELSE ScanCatalogStrict(i + 1, U_r_theoretical)

normalized_rated_voltage_strict(U_r_theoretical) ==
    [exc |-> "None", U_r |-> R(ScanCatalogStrict(1, U_r_theoretical))]

\* the loop with the comparison turned round: the first entry not above
RECURSIVE ScanCatalogBelow(_, _)
ScanCatalogBelow(i, U_r_theoretical) ==
    IF i > Len(standard_values) THEN standard_values[Len(standard_values)]
    ELSE IF Leq(R(standard_values[i]), U_r_theoretical) THEN standard_values[i]
    ELSE ScanCatalogBelow(i + 1, U_r_theoretical)

normalized_rated_voltage_below(U_r_theoretical) ==
    [exc |-> "None", U_r |-> R(ScanCatalogBelow(1, U_r_theoretical))]

normalized_rated_voltage(U_r_theoretical) ==
    [exc |-> "None", U_r |-> R(ScanCatalog(1, U_r_theoretical))]

calculate_incident_voltage(num_insulators, insulator_length, sigma) ==
    LET w    == Mul(num_insulators, insulator_length)
        V_50 == Mul(R(550), w)
        V_i  == Mul(V_50, Sub(R(1), Mul(Rat(13, 10), sigma)))
    IN  [exc |-> "None", V_i |-> V_i, V_50 |-> V_50, w |-> w]

\* the first band closed at 145
SelectZ0_closed(system_voltage) ==
    IF Leq(system_voltage, R(145)) THEN R(450)
    ELSE IF Leq(system_voltage, R(345)) THEN R(400)
    ELSE R(350)

\* lines 63-68
SelectZ0(system_voltage) ==
    IF Lt(system_voltage, R(145)) THEN R(450)
    ELSE IF Leq(R(145), system_voltage) /\ Leq(system_voltage, R(345)) THEN R(400)
    ELSE R(350)

calculate_discharge_current(V_i, Z_0) ==
    IF IsZero(Z_0) THEN Raise("ZeroDivisionError")
    ELSE LET I_d == Div(Mul(R(2), V_i), Z_0)
         IN  [exc |-> "None", I_d |-> I_d,
              I_d_nominal |-> IF Leq(I_d, R(5)) THEN R(5)
                              ELSE IF Leq(I_d, R(10)) THEN R(10)
                              ELSE IF Leq(I_d, R(20)) THEN R(20)
                              ELSE R(20)]

\* the class limits strict
DischargeClass_strict(W_prime) ==
    IF Lt(W_prime, R(1)) THEN 1
    ELSE IF Lt(W_prime, R(2)) THEN 2
    ELSE IF Lt(W_prime, R(3)) THEN 3
    ELSE IF Lt(W_prime, R(4)) THEN 4
    ELSE 5

\* lines 149-159
DischargeClass(W_prime) ==
    IF Leq(W_prime, R(1)) THEN 1
    ELSE IF Leq(W_prime, R(2)) THEN 2
    ELSE IF Leq(W_prime, R(3)) THEN 3
    ELSE IF Leq(W_prime, R(4)) THEN 4
    ELSE 5

\* W is the value of the expression of line 146 when it raises nothing.
calculate_energy_absorption(V_50, U_res, U_r, Z_0, line_length, v, N, n, W) ==
    IF IsZero(v) THEN Raise("ZeroDivisionError")
    ELSE IF IsZero(U_res) THEN Raise("ZeroDivisionError")
    ELSE IF Sign(V_50) * Sign(U_res) <= 0 THEN Raise("ValueError")
    ELSE IF IsZero(Z_0) THEN Raise("ZeroDivisionError")
    ELSE IF IsZero(U_r) THEN Raise("ZeroDivisionError")
    ELSE LET T_w     == Div(line_length, v)
             W_prime == Div(W, Mul(U_r, R(1000)))
         IN  [exc |-> "None", W |-> W, W_prime |-> W_prime, T_w |-> T_w,
              discharge_class |-> DischargeClass(W_prime)]

estimate_switching_impulse_protection_level(U_r) ==
    [exc |-> "None", NPM |-> R(Round(Mul(U_r, Rat(185, 100))))]

(***************************************************************************)
(* The script run (Spec)                                                   *)
(***************************************************************************)
\* Values a user sets each widget to, all within the widget's min_value and
\* max_value: the default, and for the voltages and factors the ends of the
\* range and the band limits of the impedance selection.
WidgetValues ==
    [U_m              |-> {R(100), R(245), R(500)},
     K_e              |-> {R(1), Rat(14, 10), R(2)},
     k_d              |-> {Rat(1, 2), Rat(8, 10), Rat(95, 100)},
     k_tov            |-> {R(1), Rat(115, 100), Rat(3, 2)},
     num_insulators   |-> {R(10), R(23), R(50)},
     insulator_length |-> {Rat(146, 1000), Rat(1, 2)},
     sigma            |-> {Rat(3, 100)},
     system_voltage   |-> {R(100), R(145), R(245), R(345), R(500)},
     U_res            |-> {R(300), R(452)},
     line_length      |-> {Rat(2294, 100)},
     v                |-> {Rat(3, 10)},
     N                |-> {R(1)},
     n                |-> {R(2)}]

WidgetNames == DOMAIN WidgetValues

\* the value= argument of each st.number_input
WidgetDefaults ==
    [U_m |-> R(245), K_e |-> Rat(14, 10), k_d |-> Rat(8, 10),
     k_tov |-> Rat(115, 100), num_insulators |-> R(23),
     insulator_length |-> Rat(146, 1000), sigma |-> Rat(3, 100),
     system_voltage |-> R(245), U_res |-> R(452),
     line_length |-> Rat(2294, 100), v |-> Rat(3, 10), N |-> R(1), n |-> R(2)]

\* The script's global names, unbound (value Zero) until assigned.
Names ==
    {"U_m", "K_e", "k_d", "k_tov", "num_insulators", "insulator_length",
     "sigma", "system_voltage", "Z_0", "U_res", "line_length", "v", "N", "n",
     "cov", "tov", "U_r_theoretical", "U_r1", "U_r2", "U_r", "V_i", "V_50",
     "w", "I_d", "I_d_nominal", "W", "W_prime", "T_w", "discharge_class",
     "NPM"}

EmptyNamespace == [x \in Names |-> Zero]

\* Values drawn for W in a run: W_prime = W / (U_r * 1000) is k/4 for these k.
WQuartersRun == {-4, 0, 4, 5, 16, 17}

WValues(U_r, quarters) == {Mul(Rat(k, 4), Mul(U_r, R(1000))) : k \in quarters}

\* The sections of the "Calcular" handler in the order the script runs them.
HandlerOrderSwapped ==
    <<"3.11.1", "3.11.2", "3.11.3", "3.11.5", "3.11.6", "3.11.7", "3.11.8",
      "3.11.4", "NPM", "summary">>

HandlerOrder ==
    <<"3.11.1", "3.11.2", "3.11.3", "3.11.4", "3.11.5", "3.11.6", "3.11.7",
      "3.11.8", "NPM", "summary">>

Position(s) == CHOOSE i \in 1..Len(HandlerOrder) : HandlerOrder[i] = s

After(s) ==
    IF Position(s) = Len(HandlerOrder) THEN "sidebar"
    ELSE HandlerOrder[Position(s) + 1]

Element(api, about) == [api |-> api, about |-> about]

ScriptInit ==
    /\ widgets = WidgetDefaults
    /\ button = FALSE
    /\ pc = "inputs"
    /\ ns = EmptyNamespace
    /\ bound = {}
    /\ page = <<>>
    /\ exc = "None"

\* An uncaught exception ends the run; Streamlit renders it on the page.
Uncaught(e) ==
    /\ exc' = e
    /\ page' = Append(page, Element("exception", e))
    /\ pc' = "done"
    /\ UNCHANGED <<widgets, button, ns, bound>>

\* A section of the handler: reads names, evaluates result, binds the names
\* in binds to result's fields, renders one st.markdown, goes on.
Section(s, reads, result, binds) ==
    /\ pc = s
    /\ exc = "None"
    /\ IF ~(reads \subseteq bound) THEN Uncaught("NameError")
       ELSE IF result.exc # "None" THEN Uncaught(result.exc)
       ELSE /\ ns' = [x \in Names |-> IF x \in binds THEN result[x] ELSE ns[x]]
            /\ bound' = bound \cup binds
            /\ page' = Append(page, Element("markdown", s))
            /\ pc' = After(s)
            /\ UNCHANGED <<widgets, button, exc>>
    /\ UNCHANGED callVars

\* lines 24-60
ReadSystemInputs ==
    /\ pc = "inputs"
    /\ LET read == {"U_m", "K_e", "k_d", "k_tov", "num_insulators",
                    "insulator_length", "sigma", "system_voltage"}
       IN  /\ ns' = [x \in Names |-> IF x \in read THEN widgets[x] ELSE ns[x]]
           /\ bound' = bound \cup read
    /\ pc' = "select_Z0"
    /\ UNCHANGED <<widgets, button, page, exc>>
    /\ UNCHANGED callVars

\* lines 63-70
SelectImpedance ==
    /\ pc = "select_Z0"
    /\ ns' = [ns EXCEPT !.Z_0 = SelectZ0(ns.system_voltage)]
    /\ bound' = bound \cup {"Z_0"}
    /\ page' = Append(page, Element("info", "Z_0"))
    /\ pc' = "inputs_line"
    /\ UNCHANGED <<widgets, button, exc>>
    /\ UNCHANGED callVars

\* lines 72-90
ReadLineInputs ==
    /\ pc = "inputs_line"
    /\ LET read == {"U_res", "line_length", "v", "N", "n"}
       IN  /\ ns' = [x \in Names |-> IF x \in read THEN widgets[x] ELSE ns[x]]
           /\ bound' = bound \cup read
    /\ pc' = "button"
    /\ UNCHANGED <<widgets, button, page, exc>>
    /\ UNCHANGED callVars

\* line 169 and line 344
Branch ==
    /\ pc = "button"
    /\ pc' = IF button THEN HandlerOrder[1] ELSE "idle"
    /\ UNCHANGED <<widgets, button, ns, bound, page, exc>>
    /\ UNCHANGED callVars

Section_3_11_1 ==
    Section("3.11.1", {"U_m"}, calculate_cov(ns.U_m), {"cov"})

Section_3_11_2 ==
    Section("3.11.2", {"cov", "K_e"}, calculate_tov(ns.cov, ns.K_e), {"tov"})

Section_3_11_3 ==
    Section("3.11.3", {"cov", "tov", "k_d", "k_tov"},
            calculate_rated_voltage(ns.cov, ns.tov, ns.k_d, ns.k_tov),
            {"U_r_theoretical", "U_r1", "U_r2"})

Section_3_11_4 ==
    Section("3.11.4", {"U_r_theoretical"},
            normalized_rated_voltage(ns.U_r_theoretical), {"U_r"})

Section_3_11_5 ==
    Section("3.11.5", {"num_insulators", "insulator_length", "sigma"},
            calculate_incident_voltage(ns.num_insulators, ns.insulator_length,
                                       ns.sigma),
            {"V_i", "V_50", "w"})

Section_3_11_6 ==
    Section("3.11.6", {"Z_0", "system_voltage"}, [exc |-> "None"], {})

Section_3_11_7 ==
    Section("3.11.7", {"V_i", "Z_0"},
            calculate_discharge_current(ns.V_i, ns.Z_0), {"I_d", "I_d_nominal"})

Section_3_11_8 ==
    \E W \in WValues(ns.U_r, WQuartersRun) :
        Section("3.11.8",
                {"V_50", "U_res", "U_r", "Z_0", "line_length", "v", "N", "n"},
                calculate_energy_absorption(ns.V_50, ns.U_res, ns.U_r, ns.Z_0,
                                            ns.line_length, ns.v, ns.N, ns.n, W),
                {"W", "W_prime", "T_w", "discharge_class"})

\* line 281: computed, not rendered until the summary
Estimate_NPM ==
    /\ pc = "NPM"
    /\ exc = "None"
    /\ IF "U_r" \notin bound THEN Uncaught("NameError")
       ELSE /\ ns' = [ns EXCEPT !.NPM =
                        estimate_switching_impulse_protection_level(ns.U_r).NPM]
            /\ bound' = bound \cup {"NPM"}
            /\ pc' = After("NPM")
            /\ UNCHANGED <<widgets, button, page, exc>>
    /\ UNCHANGED callVars

\* lines 284-342
Summary ==
    /\ pc = "summary"
    /\ exc = "None"
    /\ IF ~({"U_r", "I_d_nominal", "discharge_class", "W_prime", "U_res", "NPM",
             "cov", "tov", "U_r1", "U_r2", "V_i"} \subseteq bound)
       THEN Uncaught("NameError")
       ELSE /\ page' = page \o <<Element("table", "summary"),
                                 Element("altair_chart", "voltages"),
                                 Element("info", "recommendation"),
                                 Element("success", "U_r"),
                                 Element("success", "I_d_nominal"),
                                 Element("success", "discharge_class"),
                                 Element("success", "U_res"),
                                 Element("success", "NPM")>>
            /\ pc' = After("summary")
            /\ UNCHANGED <<widgets, button, ns, bound, exc>>
    /\ UNCHANGED callVars

\* lines 344-368
Idle ==
    /\ pc = "idle"
    /\ page' = page \o <<Element("info", "instructions"),
                         Element("image", "arrester"),
                         Element("markdown", "about")>>
    /\ pc' = "sidebar"
    /\ UNCHANGED <<widgets, button, ns, bound, exc>>
    /\ UNCHANGED callVars

\* lines 371-384
Sidebar ==
    /\ pc = "sidebar"
    /\ pc' = "done"
    /\ UNCHANGED <<widgets, button, ns, bound, page, exc>>
    /\ UNCHANGED callVars

\* Any interaction reruns the script from the top in a fresh namespace.
Rerun ==
    /\ pc' = "inputs"
    /\ ns' = EmptyNamespace
    /\ bound' = {}
    /\ page' = <<>>
    /\ exc' = "None"

\* the user sets a widget to another value of its range
EditWidget ==
    /\ pc = "done"
    /\ \E x \in WidgetNames : \E val \in WidgetValues[x] \ {widgets[x]} :
           widgets' = [widgets EXCEPT ![x] = val]
    /\ button' = FALSE
    /\ Rerun
    /\ UNCHANGED callVars

\* the user clicks "Calcular": st.sidebar.button is True in the rerun only
ClickCalcular ==
    /\ pc = "done"
    /\ button' = TRUE
    /\ widgets' = widgets
    /\ Rerun
    /\ UNCHANGED callVars

CallsInit ==
    /\ call = [fn |-> "idle"]
    /\ ret = [exc |-> "None"]

Init == ScriptInit /\ CallsInit

Next ==
    \/ ReadSystemInputs
    \/ SelectImpedance
    \/ ReadLineInputs
    \/ Branch
    \/ Section_3_11_1
    \/ Section_3_11_2
    \/ Section_3_11_3
    \/ Section_3_11_4
    \/ Section_3_11_5
    \/ Section_3_11_6
    \/ Section_3_11_7
    \/ Section_3_11_8
    \/ Estimate_NPM
    \/ Summary
    \/ Idle
    \/ Sidebar
    \/ EditWidget
    \/ ClickCalcular

Spec == Init /\ [][Next]_vars

(***************************************************************************)
(* The functions called directly (SpecCalls)                               *)
(***************************************************************************)
\* normalized_rated_voltage is called with 3*k kV, k in -2..MaxRatedStep
MaxRatedStep == 140

\* the impedance selection is evaluated at 2.5*k kV, k in 0..MaxImpedanceStep
MaxImpedanceStep == 144

\* cov and tov are 100*k kV, k in 1..MaxVoltageHundreds
MaxVoltageHundreds == 2

\* k_d and k_tov are j/2, j in -MaxFactorHalves..MaxFactorHalves
MaxFactorHalves == 2

\* W_prime is k/4, k in -4..MaxWQuarter
MaxWQuarter == 24

\* V_i is 250*k kV, k in 0..MaxIncidentStep
MaxIncidentStep == 20

Call_calculate_cov ==
    \E U_m \in WidgetValues.U_m :
        /\ call' = [fn |-> "calculate_cov", U_m |-> U_m]
        /\ ret' = calculate_cov(U_m)
        /\ UNCHANGED scriptVars

Call_calculate_tov ==
    \E k \in 1..MaxVoltageHundreds : \E K_e \in WidgetValues.K_e :
        /\ call' = [fn |-> "calculate_tov", cov |-> R(100 * k), K_e |-> K_e]
        /\ ret' = calculate_tov(R(100 * k), K_e)
        /\ UNCHANGED scriptVars

Call_calculate_rated_voltage ==
    \E c, t \in 1..MaxVoltageHundreds :
    \E i, j \in (-MaxFactorHalves)..MaxFactorHalves :
        /\ call' = [fn |-> "calculate_rated_voltage", cov |-> R(100 * c),
                    tov |-> R(100 * t), k_d |-> Rat(i, 2), k_tov |-> Rat(j, 2)]
        /\ ret' = calculate_rated_voltage(R(100 * c), R(100 * t),
                                          Rat(i, 2), Rat(j, 2))
        /\ UNCHANGED scriptVars

Call_normalized_rated_voltage ==
    \E k \in (-2)..MaxRatedStep :
        /\ call' = [fn |-> "normalized_rated_voltage",
                    U_r_theoretical |-> R(3 * k)]
        /\ ret' = normalized_rated_voltage(R(3 * k))
        /\ UNCHANGED scriptVars

Call_calculate_incident_voltage ==
    \E num \in WidgetValues.num_insulators :
    \E len \in WidgetValues.insulator_length :
    \E sigma \in WidgetValues.sigma :
        /\ call' = [fn |-> "calculate_incident_voltage", num_insulators |-> num,
                    insulator_length |-> len, sigma |-> sigma]
        /\ ret' = calculate_incident_voltage(num, len, sigma)
        /\ UNCHANGED scriptVars

Eval_SelectZ0 ==
    \E k \in 0..MaxImpedanceStep :
        /\ call' = [fn |-> "SelectZ0", system_voltage |-> Rat(5 * k, 2)]
        /\ ret' = [exc |-> "None", Z_0 |-> SelectZ0(Rat(5 * k, 2))]
        /\ UNCHANGED scriptVars

Call_calculate_discharge_current ==
    \E k \in 0..MaxIncidentStep : \E Z_0 \in {R(0), R(350), R(400), R(450)} :
        /\ call' = [fn |-> "calculate_discharge_current", V_i |-> R(250 * k),
                    Z_0 |-> Z_0]
        /\ ret' = calculate_discharge_current(R(250 * k), Z_0)
        /\ UNCHANGED scriptVars

Call_calculate_energy_absorption ==
    \E sv, su \in -1..1 : \E v \in {Rat(3, 10)} :
    \E W \in WValues(R(192), (-4)..MaxWQuarter) :
        LET V_50  == R(sv * 1847)
            U_res == R(su * 452)
        IN  /\ call' = [fn |-> "calculate_energy_absorption", V_50 |-> V_50,
                        U_res |-> U_res, U_r |-> R(192), Z_0 |-> R(400),
                        line_length |-> Rat(2294, 100), v |-> v, N |-> R(1),
                        n |-> R(2)]
            /\ ret' = calculate_energy_absorption(V_50, U_res, R(192), R(400),
                          Rat(2294, 100), v, R(1), R(2), W)
            /\ UNCHANGED scriptVars

Call_estimate_switching_impulse_protection_level ==
    \E i \in 1..Len(standard_values) :
        /\ call' = [fn |-> "estimate_switching_impulse_protection_level",
                    U_r |-> R(standard_values[i])]
        /\ ret' = estimate_switching_impulse_protection_level(
                      R(standard_values[i]))
        /\ UNCHANGED scriptVars

NextCalls ==
    \/ Call_calculate_cov
    \/ Call_calculate_tov
    \/ Call_calculate_rated_voltage
    \/ Call_normalized_rated_voltage
    \/ Call_calculate_incident_voltage
    \/ Eval_SelectZ0
    \/ Call_calculate_discharge_current
    \/ Call_calculate_energy_absorption
    \/ Call_estimate_switching_impulse_protection_level

SpecCalls == Init /\ [][NextCalls]_vars

(***************************************************************************)
(* Properties                                                              *)
(***************************************************************************)
CatalogValues == {R(standard_values[i]) : i \in 1..Len(standard_values)}

CatalogMax == R(standard_values[Len(standard_values)])

Rendered(api) == \E i \in 1..Len(page) : page[i].api = api

IsCall(f) == call.fn = f

\* C1: for an input not above 396, normalized_rated_voltage returns the
\* smallest catalog value >= the input, a catalog entry is returned as it
\* is, and of two consecutive calls the one with the larger input returns
\* the larger (or the same) value.
C1_CeilingLookup ==
    /\ [](IsCall("normalized_rated_voltage")
            /\ Leq(call.U_r_theoretical, CatalogMax)
          => /\ ret.exc = "None"
             /\ ret.U_r \in CatalogValues
             /\ Leq(call.U_r_theoretical, ret.U_r)
             /\ \A c \in CatalogValues :
                    Leq(call.U_r_theoretical, c) => Leq(ret.U_r, c)
             /\ call.U_r_theoretical \in CatalogValues
                    => ret.U_r = call.U_r_theoretical)
    /\ [][IsCall("normalized_rated_voltage")
            /\ call'.fn = "normalized_rated_voltage"
            /\ Leq(call.U_r_theoretical, call'.U_r_theoretical)
          => Leq(ret.U_r, ret'.U_r)]_vars

C1_Witness ==
    /\ IsCall("normalized_rated_voltage")
    /\ call.U_r_theoretical = R(258)
    /\ ret.U_r = R(258)

\* C2: when U_r_theoretical exceeds every catalog value, the normalized
\* rated voltage is 396 and a warning is rendered with the result.
C2_SaturationFlagged ==
    ("U_r" \in bound /\ Lt(CatalogMax, ns.U_r_theoretical))
        => (ns.U_r = CatalogMax /\ Rendered("warning"))

\* C3 as stated: the normalized rated voltage is a catalog value that is
\* >= U_r1 and >= U_r2, for every input set in the widget ranges.
C3_Original ==
    "U_r" \in bound
        => /\ ns.U_r \in CatalogValues
           /\ Leq(ns.U_r1, ns.U_r)
           /\ Leq(ns.U_r2, ns.U_r)

\* C3 amended: the normalized rated voltage is a catalog value; it is
\* >= U_r1 and >= U_r2 whenever max(U_r1, U_r2) <= 396, and it is 396
\* otherwise.
C3_Amended ==
    "U_r" \in bound
        => /\ ns.U_r \in CatalogValues
           /\ IF Leq(ns.U_r_theoretical, CatalogMax)
              THEN Leq(ns.U_r1, ns.U_r) /\ Leq(ns.U_r2, ns.U_r)
              ELSE ns.U_r = CatalogMax

C3_Witness ==
    /\ "U_r" \in bound
    /\ Lt(ns.U_r1, ns.U_r2)
    /\ Leq(ns.U_r_theoretical, CatalogMax)
    /\ ns.U_r = R(300)

SectionOutputs ==
    {"cov", "tov", "U_r_theoretical", "U_r1", "U_r2", "U_r", "V_i", "V_50", "w",
     "I_d", "I_d_nominal", "W", "W_prime", "T_w", "discharge_class", "NPM"}

SectionRendered ==
    \E i \in 1..Len(page) :
        \E k \in 1..Len(HandlerOrder) : page[i].about = HandlerOrder[k]

\* C4: a section's output is on the page only when every section has
\* succeeded, and a run that failed has rendered no section.
C4_AtomicExposure ==
    /\ SectionRendered => (exc = "None" /\ SectionOutputs \subseteq bound)
    /\ exc # "None" => ~SectionRendered

\* C5: the nominal discharge current is the smallest of 5, 10, 20 that is
\* >= I_d = 2*V_i/Z_0, and when I_d > 20 it is 20 and a warning is rendered.
C5_CeilingWithWarning ==
    "I_d_nominal" \in bound
        => /\ ns.I_d = Div(Mul(R(2), ns.V_i), ns.Z_0)
           /\ ns.I_d_nominal \in {R(5), R(10), R(20)}
           /\ IF Leq(ns.I_d, R(20))
              THEN /\ Leq(ns.I_d, ns.I_d_nominal)
                   /\ \A c \in {R(5), R(10), R(20)} :
                          Leq(ns.I_d, c) => Leq(ns.I_d_nominal, c)
              ELSE ns.I_d_nominal = R(20) /\ Rendered("warning")

\* C6: Z_0 is 450 below 145 kV, 400 from 145 to 345 kV (both included) and
\* 350 above 345 kV, for every voltage >= 0.
C6_ImpedanceBands ==
    IsCall("SelectZ0") /\ Leq(Zero, call.system_voltage)
        => /\ ret.Z_0 \in {R(450), R(400), R(350)}
           /\ Lt(call.system_voltage, R(145)) => ret.Z_0 = R(450)
           /\ (Leq(R(145), call.system_voltage)
                 /\ Leq(call.system_voltage, R(345))) => ret.Z_0 = R(400)
           /\ Lt(R(345), call.system_voltage) => ret.Z_0 = R(350)

C6_Witness ==
    /\ IsCall("SelectZ0")
    /\ call.system_voltage = R(345)
    /\ ret.Z_0 = R(400)

EnergyReturned == IsCall("calculate_energy_absorption") /\ ret.exc = "None"

\* C7: the discharge class is in 1..5; it is the smallest c in 1..4 with
\* W_prime <= c when W_prime <= 4 and 5 when W_prime > 4; of two consecutive
\* calls the one with the larger W_prime has the larger (or the same) class.
C7_DischargeClass ==
    /\ [](EnergyReturned
          => /\ ret.discharge_class \in 1..5
             /\ IF Leq(ret.W_prime, R(4))
                THEN /\ ret.discharge_class \in 1..4
                     /\ Leq(ret.W_prime, R(ret.discharge_class))
                     /\ \A c \in 1..4 :
                            Leq(ret.W_prime, R(c)) => ret.discharge_class <= c
                ELSE ret.discharge_class = 5)
    /\ [][EnergyReturned /\ EnergyReturned' /\ Leq(ret.W_prime, ret'.W_prime)
          => ret.discharge_class <= ret'.discharge_class]_vars

C7_Witness ==
    /\ EnergyReturned
    /\ ret.W_prime = R(3)
    /\ ret.discharge_class = 3

\* C8: calculate_rated_voltage raises when k_d <= 0 or k_tov <= 0, and
\* returns max(cov/k_d, tov/k_tov) otherwise.
C8_RaisesOnNonPositiveFactor ==
    IsCall("calculate_rated_voltage")
        => IF Leq(call.k_d, Zero) \/ Leq(call.k_tov, Zero)
           THEN ret.exc # "None"
           ELSE /\ ret.exc = "None"
                /\ Leq(Div(call.cov, call.k_d), ret.U_r_theoretical)
                /\ Leq(Div(call.tov, call.k_tov), ret.U_r_theoretical)
                /\ ret.U_r_theoretical \in
                       {Div(call.cov, call.k_d), Div(call.tov, call.k_tov)}

\* C9: calculate_energy_absorption raises whenever U_res <= 0 or V_50 <= 0.
C9_RaisesOnNonPositiveVoltage ==
    (IsCall("calculate_energy_absorption")
       /\ (Leq(call.U_res, Zero) \/ Leq(call.V_50, Zero)))
        => ret.exc # "None"

\* C10: a section runs only after the sections whose outputs it reads: no
\* run reads an unbound name, and a bound output has its inputs bound.
C10_DependencyOrder ==
    /\ exc # "NameError"
    /\ "tov" \in bound => "cov" \in bound
    /\ "U_r_theoretical" \in bound => {"cov", "tov"} \subseteq bound
    /\ "U_r" \in bound => "U_r_theoretical" \in bound
    /\ "I_d" \in bound => {"Z_0", "V_i"} \subseteq bound
    /\ "W" \in bound => {"Z_0", "U_r", "V_50"} \subseteq bound
    /\ "NPM" \in bound => "U_r" \in bound

C10_Witness ==
    /\ pc = "done"
    /\ button
    /\ exc = "None"
    /\ SectionOutputs \subseteq bound

====
